---------------------------- MODULE Spec2Model ----------------------------
(***************************************************************************)
(* A model of AI_ToolBox: the Groq gateway (app/services/groq_service.py)  *)
(* and the page functions that call it (pages/*.py).                       *)
(*                                                                         *)
(* Python values are tagged records [t |-> <type name>, v |-> <payload>]:  *)
(* a str is the sequence of its characters, a dict a function from keys,  *)
(* a list a sequence.  A character is a one-character string; the          *)
(* backtick, which a TLA+ string cannot hold, is the character BQ.         *)
(* The outcome of a call is [kind |-> "return" | "raise", value |-> v]     *)
(* where a raised value carries the exception type as its tag.             *)
(***************************************************************************)
EXTENDS Integers, Sequences, FiniteSets, TLC

VARIABLES
    api_key,        \* GROQ_API_KEY of the environment: a str, or None
    _groq_service,  \* the singleton of groq_service.py: "GroqService" or "None"
    groq_service,   \* the page's gateway handle: "GroqService" or "None"
    chat_history,   \* st.session_state.chat_history of the chat page
    processing_done,\* st.session_state.processing_done of the chat page
    call,           \* the operation invoked last and its arguments
    requests,       \* the requests that invocation handed to the transport
    result          \* the outcome of that invocation

vars == <<api_key, _groq_service, groq_service, chat_history, processing_done,
          call, requests, result>>

\* what the pages other than the chat page leave alone
session == <<api_key, _groq_service, groq_service, chat_history, processing_done>>

-----------------------------------------------------------------------------
(* Python values *)

BQ == "BACKTICK"

Str(s) == [i \in 1..Len(s) |-> SubSeq(s, i, i)]

PyStr(chars) == [t |-> "str", v |-> chars]
PyInt(n) == [t |-> "int", v |-> n]
PyFloat(m, e) == [t |-> "float", v |-> <<m, e>>]
PyBool(b) == [t |-> "bool", v |-> b]
PyList(seq) == [t |-> "list", v |-> seq]
PyDict(f) == [t |-> "dict", v |-> f]
None == [t |-> "NoneType", v |-> <<>>]
EmptyDict == [k \in {} |-> None]

S(s) == PyStr(Str(s))

\* bool(x)
Truthy(x) ==
    CASE x.t = "NoneType" -> FALSE
      [] x.t = "bool" -> x.v
      [] x.t = "int" -> x.v # 0
      [] x.t = "float" -> x.v[1] # 0
      [] x.t = "str" -> Len(x.v) > 0
      [] x.t = "list" -> Len(x.v) > 0
      [] x.t = "dict" -> DOMAIN x.v # {}
      [] OTHER -> TRUE

\* a or b
\* the override is ignored
OrDefault(a, b) == b

Or(a, b) == IF Truthy(a) THEN a ELSE b

Return(v) == [kind |-> "return", value |-> v]
Raise(type, msg) == [kind |-> "raise", value |-> [t |-> type, v |-> Str(msg)]]

Min(set) == CHOOSE x \in set : \A y \in set : x <= y

\* sub in s, for two str payloads
Contains(s, sub) ==
    \E i \in 1..(Len(s) - Len(sub) + 1) : SubSeq(s, i, i + Len(sub) - 1) = sub


-----------------------------------------------------------------------------
(* re.search(r'```json\s*(.*?)\s*```', content, re.DOTALL) and             *)
(* re.search(r'```\s*(.*?)\s*```', content, re.DOTALL)                      *)

Fence == <<BQ, BQ, BQ>>
JsonFence == Fence \o Str("json")

\* \s of a str pattern, on the characters the model draws texts from
ReWhitespace == {" ", "\t", "\n", "\r", "\f"}

\* the literal lit occurs in s at index i
LiteralAt(lit, s, i) ==
    /\ i >= 1
    /\ i + Len(lit) - 1 <= Len(s)
    /\ SubSeq(s, i, i + Len(lit) - 1) = lit

\* greedy \s* from index i: the index of the first character it leaves
SkipReWhitespace(s, i) ==
    Min({j \in i..(Len(s) + 1) : j > Len(s) \/ s[j] \notin ReWhitespace})

\* the first closing ``` at or after index p, 0 when there is none
MinOrZero(set) == IF set = {} THEN 0 ELSE Min(set)

FirstFence(s, p) == MinOrZero({q \in p..(Len(s) - 2) : LiteralAt(Fence, s, q)})

NoMatch == [found |-> FALSE, group1 |-> <<>>]

\* where the lazy group ends: before the whitespace that precedes the ``` at q
GroupEnd(s, p, q) ==
    Min({j \in p..q : \A k \in j..(q - 1) : s[k] \in ReWhitespace})

\* the group starts at p; q is the first ``` from there on
MatchGroup(s, p, q) ==
    IF q = 0 THEN NoMatch
    ELSE [found |-> TRUE, group1 |-> SubSeq(s, p, GroupEnd(s, p, q) - 1)]

\* open \s* (.*?) \s* ``` tried at index i.  The greedy \s* takes all the
\* whitespace after open; the lazy group takes the shortest text after which
\* only whitespace separates it from a ```, the first ``` found.
MatchAt(open, s, i) ==
    IF ~LiteralAt(open, s, i) THEN NoMatch
    ELSE MatchGroup(s, SkipReWhitespace(s, i + Len(open)),
                    FirstFence(s, SkipReWhitespace(s, i + Len(open))))

FirstMatch(open, s, starts) ==
    IF starts = {} THEN NoMatch ELSE MatchAt(open, s, Min(starts))

\* re.search: the match at the leftmost index that has one
Search(open, s) ==
    FirstMatch(open, s, {i \in 1..Len(s) : MatchAt(open, s, i).found})

-----------------------------------------------------------------------------
(* json.loads(content), for a str payload                                  *)

JsonWhitespace == {" ", "\t", "\n", "\r"}
Digits == {"0", "1", "2", "3", "4", "5", "6", "7", "8", "9"}
HexDigits == Digits \cup {"a", "b", "c", "d", "e", "f", "A", "B", "C", "D", "E", "F"}
\* characters below 0x20, which a strict decoder refuses inside a string
ControlChars == {"\t", "\n", "\r", "\f", "BACKSPACE"}
BACKSLASH ==
    [c \in {"\"", "\\", "/", "b", "f", "n", "r", "t"} |->
        CASE c = "b" -> "BACKSPACE"
          [] c = "f" -> "\f"
          [] c = "n" -> "\n"
          [] c = "r" -> "\r"
          [] c = "t" -> "\t"
          [] OTHER -> c]

DigitValue(c) ==
    CASE c = "0" -> 0 [] c = "1" -> 1 [] c = "2" -> 2 [] c = "3" -> 3
      [] c = "4" -> 4 [] c = "5" -> 5 [] c = "6" -> 6 [] c = "7" -> 7
      [] c = "8" -> 8 [] c = "9" -> 9

Scanned(v, end) == [ok |-> TRUE, val |-> v, end |-> end]
NoScan == [ok |-> FALSE, val |-> None, end |-> 0]

CharAt(s, i) == IF i >= 1 /\ i <= Len(s) THEN s[i] ELSE "EOF"

SkipJsonWhitespace(s, i) ==
    Min({j \in i..(Len(s) + 1) : j > Len(s) \/ s[j] \notin JsonWhitespace})

\* the end of the run of digits that starts at index i
DigitsEnd(s, i) ==
    Min({j \in i..(Len(s) + 1) : j > Len(s) \/ s[j] \notin Digits})

RECURSIVE DecimalValue(_)
DecimalValue(ds) ==
    IF ds = <<>> THEN 0
    ELSE 10 * DecimalValue(SubSeq(ds, 1, Len(ds) - 1)) + DigitValue(ds[Len(ds)])

\* scanstring(s, end, strict=True): i is the index after the opening quote
RECURSIVE py_scanstring(_, _, _)
py_scanstring(s, i, acc) ==
    CASE CharAt(s, i) = "EOF" -> NoScan
      [] CharAt(s, i) = "\"" -> Scanned(PyStr(acc), i + 1)
      [] CharAt(s, i) = "\\" ->
            IF CharAt(s, i + 1) = "u"
            THEN IF \A k \in (i + 2)..(i + 5) : CharAt(s, k) \in HexDigits
                 THEN py_scanstring(s, i + 6,
                          Append(acc, "u" \o s[i + 2] \o s[i + 3] \o s[i + 4] \o s[i + 5]))
                 ELSE NoScan
            ELSE IF CharAt(s, i + 1) \in DOMAIN BACKSLASH
                 THEN py_scanstring(s, i + 2, Append(acc, BACKSLASH[CharAt(s, i + 1)]))
                 ELSE NoScan
      [] CharAt(s, i) \in ControlChars -> NoScan
      [] OTHER -> py_scanstring(s, i + 1, Append(acc, CharAt(s, i)))

\* NUMBER_RE.match(s, i): (-?(?:0|[1-9]\d*))(\.\d+)?([eE][-+]?\d+)?
\* the number starts at i, its digits at a; the integer part ends before b,
\* the fraction before f, the exponent before x
NumberValue(s, i, a, b, f, x) ==
    IF x = b
    THEN Scanned(PyInt(IF a > i THEN -DecimalValue(SubSeq(s, a, b - 1))
                                ELSE DecimalValue(SubSeq(s, a, b - 1))), b)
    ELSE Scanned(PyFloat(SubSeq(s, i, f - 1), SubSeq(s, f + 1, x - 1)), x)

ExponentDigits(s, f, x0) ==
    IF CharAt(s, x0) \in Digits THEN DigitsEnd(s, x0) ELSE f

ExponentEnd(s, f) ==
    IF CharAt(s, f) \in {"e", "E"}
    THEN ExponentDigits(s, f, IF CharAt(s, f + 1) \in {"-", "+"} THEN f + 2 ELSE f + 1)
    ELSE f

NumberExponent(s, i, a, b, f) == NumberValue(s, i, a, b, f, ExponentEnd(s, f))

NumberFraction(s, i, a, b) ==
    NumberExponent(s, i, a, b,
                   IF CharAt(s, b) = "." /\ CharAt(s, b + 1) \in Digits
                   THEN DigitsEnd(s, b + 1) ELSE b)

NumberDigits(s, i, a) ==
    IF CharAt(s, a) \notin Digits THEN NoScan
    ELSE NumberFraction(s, i, a, IF CharAt(s, a) = "0" THEN a + 1 ELSE DigitsEnd(s, a))

MatchNumber(s, i) ==
    NumberDigits(s, i, IF CharAt(s, i) = "-" THEN i + 1 ELSE i)

RECURSIVE scan_once(_, _), JSONObject(_, _, _), JSONArray(_, _, _)

\* after a member: nxt is the index of the character that follows its value
ObjectNext(s, nxt, pairs) ==
    IF CharAt(s, nxt) = "}" THEN Scanned(PyDict(pairs), nxt + 1)
    ELSE IF CharAt(s, nxt) = "," THEN JSONObject(s, SkipJsonWhitespace(s, nxt + 1), pairs)
    ELSE NoScan

ObjectValue(s, key, val, acc) ==
    IF ~val.ok THEN NoScan
    ELSE ObjectNext(s, SkipJsonWhitespace(s, val.end), (key.val.v :> val.val) @@ acc)

ObjectColon(s, key, colon, acc) ==
    IF CharAt(s, colon) # ":" THEN NoScan
    ELSE ObjectValue(s, key, scan_once(s, SkipJsonWhitespace(s, colon + 1)), acc)

ObjectKey(s, key, acc) ==
    IF ~key.ok THEN NoScan
    ELSE ObjectColon(s, key, SkipJsonWhitespace(s, key.end), acc)

\* the members of an object: i is the index where a key must start; a key
\* met again replaces the value it had
JSONObject(s, i, acc) ==
    IF CharAt(s, i) # "\"" THEN NoScan
    ELSE ObjectKey(s, py_scanstring(s, i + 1, <<>>), acc)

ArrayNext(s, nxt, items) ==
    IF CharAt(s, nxt) = "]" THEN Scanned(PyList(items), nxt + 1)
    ELSE IF CharAt(s, nxt) = "," THEN JSONArray(s, SkipJsonWhitespace(s, nxt + 1), items)
    ELSE NoScan

ArrayValue(s, val, acc) ==
    IF ~val.ok THEN NoScan
    ELSE ArrayNext(s, SkipJsonWhitespace(s, val.end), Append(acc, val.val))

\* the elements of an array: i is the index where a value must start
JSONArray(s, i, acc) == ArrayValue(s, scan_once(s, i), acc)

ObjectStart(s, j) ==
    IF CharAt(s, j) = "}" THEN Scanned(PyDict(EmptyDict), j + 1)
    ELSE JSONObject(s, j, EmptyDict)

ArrayStart(s, j) ==
    IF CharAt(s, j) = "]" THEN Scanned(PyList(<<>>), j + 1)
    ELSE JSONArray(s, j, <<>>)

scan_once(s, i) ==
    CASE CharAt(s, i) = "\"" -> py_scanstring(s, i + 1, <<>>)
      [] CharAt(s, i) = "{" -> ObjectStart(s, SkipJsonWhitespace(s, i + 1))
      [] CharAt(s, i) = "[" -> ArrayStart(s, SkipJsonWhitespace(s, i + 1))
      [] LiteralAt(Str("null"), s, i) -> Scanned(None, i + 4)
      [] LiteralAt(Str("true"), s, i) -> Scanned(PyBool(TRUE), i + 4)
      [] LiteralAt(Str("false"), s, i) -> Scanned(PyBool(FALSE), i + 5)
      [] OTHER -> MatchNumber(s, i)

\* the value must be all of the text, whitespace aside
LoadsEnd(s, obj) ==
    IF ~obj.ok THEN Raise("JSONDecodeError", "Expecting value")
    ELSE IF SkipJsonWhitespace(s, obj.end) # Len(s) + 1
         THEN Raise("JSONDecodeError", "Extra data")
         ELSE Return(obj.val)

\* json.loads(s)
JsonLoads(s) == LoadsEnd(s, scan_once(s, SkipJsonWhitespace(s, 1)))

\* the second search, made when the first found nothing
UntaggedContent(text, json_match) ==
    IF json_match.found THEN json_match.group1 ELSE text

\* content after the searches: the interior of the block found, else content
FencedContent(text, json_match) ==
    IF json_match.found THEN json_match.group1
    ELSE UntaggedContent(text, Search(Fence, text))

\* GroqService._extract_json(content)
\* a text that does not parse yields the empty object
_extract_json_lenient(content) ==
    IF content.t # "str"
    THEN Raise("TypeError", "expected string or bytes-like object, got '" \o content.t \o "'")
    ELSE IF JsonLoads(FencedContent(content.v, Search(JsonFence, content.v))).kind = "raise"
    THEN Return(PyDict(EmptyDict))
    ELSE JsonLoads(FencedContent(content.v, Search(JsonFence, content.v)))

_extract_json(content) ==
    IF content.t # "str"
    THEN Raise("TypeError", "expected string or bytes-like object, got '" \o content.t \o "'")
    ELSE JsonLoads(FencedContent(content.v, Search(JsonFence, content.v)))

-----------------------------------------------------------------------------
(* dict, list and str operations the feature functions apply to the parsed *)
(* value, whose type the remote model decides                              *)

\* str(e)
StrOf(e) == PyStr(e.v)

Has(d, key) == Str(key) \in DOMAIN d.v
Get(d, key) == d.v[Str(key)]

\* key not in obj
NotIn(key, obj) ==
    CASE obj.t = "dict" -> Return(PyBool(key.v \notin DOMAIN obj.v))
      [] obj.t = "list" -> Return(PyBool(\A i \in 1..Len(obj.v) : obj.v[i] # key))
      [] obj.t = "str" -> Return(PyBool(~Contains(obj.v, key.v)))
      [] OTHER -> Raise("TypeError", "argument of type '" \o obj.t \o "' is not iterable")

\* obj[key] = val
SetItem(obj, key, val) ==
    CASE obj.t = "dict" -> Return(PyDict((key.v :> val) @@ obj.v))
      [] obj.t = "list" -> Raise("TypeError", "list indices must be integers or slices, not str")
      [] OTHER -> Raise("TypeError", "'" \o obj.t \o "' object does not support item assignment")

\* obj[key]
GetItem(obj, key) ==
    CASE obj.t = "dict" ->
            IF key.v \in DOMAIN obj.v THEN Return(obj.v[key.v])
            ELSE [kind |-> "raise", value |-> [t |-> "KeyError", v |-> key.v]]
      [] obj.t = "list" -> Raise("TypeError", "list indices must be integers or slices, not str")
      [] obj.t = "str" -> Raise("TypeError", "string indices must be integers, not 'str'")
      [] OTHER -> Raise("TypeError", "'" \o obj.t \o "' object is not subscriptable")

\* if key not in result: result[key] = default
EnsureAbsent(obj, key, default, absent) ==
    IF absent.kind = "raise" THEN absent
    ELSE IF absent.value.v THEN SetItem(obj, S(key), default)
    ELSE Return(obj)

\* the default replaces what the model supplied
EnsureFieldOverwritten(obj, key, default) == SetItem(obj, S(key), default)

EnsureField(obj, key, default) == EnsureAbsent(obj, key, default, NotIn(S(key), obj))

\* s.strip()
Max(set) == CHOOSE x \in set : \A y \in set : y <= x

Kept(s, keep) == IF keep = {} THEN <<>> ELSE SubSeq(s, Min(keep), Max(keep))

Strip(s) == Kept(s, {i \in 1..Len(s) : s[i] \notin ReWhitespace})

-----------------------------------------------------------------------------
(* GroqService: the gateway.  reply is what the remote transport does with *)
(* the request: it raises, or it returns the content of the first choice.  *)

TEXT_MODEL == S("openai/gpt-oss-120b")
IMAGE_MODEL == S("meta-llama/llama-4-maverick-17b-128e-instruct")
DEFAULT_MODEL == S("openai/gpt-oss-120b")

\* the record a gateway or feature call gives back: the requests it handed
\* to the transport, and its own outcome
Did(sent, outcome) == [sent |-> sent, outcome |-> outcome]

\* the hint goes to every model once use_reasoning is on
ReasoningParamsAnyModel(model, use_reasoning) ==
    IF use_reasoning THEN [reasoning_effort |-> S("medium")] ELSE EmptyDict

\* the hint asks for another effort
ReasoningParamsHigh(model, use_reasoning) ==
    IF use_reasoning /\ Contains(model.v, Str("gpt-oss"))
    THEN [reasoning_effort |-> S("high")]
    ELSE EmptyDict

\* "reasoning_effort": "medium", for the models that support it
ReasoningParams(model, use_reasoning) ==
    IF use_reasoning /\ Contains(model.v, Str("gpt-oss"))
    THEN [reasoning_effort |-> S("medium")]
    ELSE EmptyDict

\* GroqService._call_groq(messages, model, temperature, max_tokens, use_reasoning)
\* the parameters _call_groq builds for the resolved model
Params(messages, model, temperature, max_tokens, use_reasoning) ==
    [model |-> model,
     messages |-> messages,
     temperature |-> temperature,
     max_completion_tokens |-> max_tokens,
     top_p |-> 1,
     stream |-> FALSE,
     stop |-> None] @@ ReasoningParams(model, use_reasoning)

\* the wrapped error drops the text of the failure
CompletionSwallowed(reply) ==
    IF reply.kind = "raise"
    THEN [kind |-> "raise", value |-> [t |-> "Exception", v |-> Str("Groq API error")]]
    ELSE Return(reply.value)

\* except Exception as e: raise Exception(f"Groq API error: {str(e)}")
Completion(reply) ==
    IF reply.kind = "raise"
    THEN [kind |-> "raise",
          value |-> [t |-> "Exception", v |-> Str("Groq API error: ") \o reply.value.v]]
    ELSE Return(reply.value)

\* a failed call is made once more
_call_groq_retried(messages, model, temperature, max_tokens, use_reasoning, reply) ==
    Did(IF reply.kind = "raise"
        THEN <<Params(messages, Or(model, DEFAULT_MODEL), temperature, max_tokens, use_reasoning),
               Params(messages, Or(model, DEFAULT_MODEL), temperature, max_tokens, use_reasoning)>>
        ELSE <<Params(messages, Or(model, DEFAULT_MODEL), temperature, max_tokens, use_reasoning)>>,
        Completion(reply))

\* GroqService._call_groq(messages, model, temperature, max_tokens, use_reasoning)
_call_groq(messages, model, temperature, max_tokens, use_reasoning, reply) ==
    Did(<<Params(messages, Or(model, DEFAULT_MODEL), temperature, max_tokens, use_reasoning)>>,
        Completion(reply))

\* the handler of a feature function lets the exception through
ErrorResultReraised(e) == [kind |-> "raise", value |-> e]

\* except Exception as e: return {"error": str(e)}
ErrorResult(e) == Return(PyDict(Str("error") :> StrOf(e)))

GrammarPrompt(text) ==
    Str("You are a professional editor and an expert grammar tutor. [...]\n\nOriginal text: ")
    \o text
    \o Str("\n\nProvide your response in the following JSON format: [...]\nEnsure the JSON is well-formed.")

\* return {"original_text": ..., "corrected_text": ..., "corrections": ...}
GrammarFields(text, corrected, corrections) ==
    IF corrected.kind = "raise" THEN ErrorResult(corrected.value)
    ELSE IF corrections.kind = "raise" THEN ErrorResult(corrections.value)
    ELSE Return(PyDict(Str("original_text") :> text
                       @@ Str("corrected_text") :> corrected.value
                       @@ Str("corrections") :> corrections.value))

GrammarCorrections(text, ensured) ==
    IF ensured.kind = "raise" THEN ErrorResult(ensured.value)
    ELSE GrammarFields(text, GetItem(ensured.value, S("corrected_text")),
                       GetItem(ensured.value, S("corrections")))

GrammarCorrected(text, ensured) ==
    IF ensured.kind = "raise" THEN ErrorResult(ensured.value)
    ELSE GrammarCorrections(text, EnsureField(ensured.value, "corrections", PyList(<<>>)))

\* the body of check_grammar's try block after the response was parsed;
\* what it raises is caught by except Exception
GrammarResult(text, parsed) ==
    GrammarCorrected(text, EnsureField(parsed, "corrected_text", text))

\* the fallback gives the input back as the corrected text
GrammarFallbackOfInput(text, response) ==
    Return(PyDict(Str("original_text") :> text
                  @@ Str("corrected_text") :> text
                  @@ Str("corrections") :> PyList(<<>>)))

\* except json.JSONDecodeError: the response becomes the corrected text
GrammarFallback(text, response) ==
    Return(PyDict(Str("original_text") :> text
                  @@ Str("corrected_text") :> response
                  @@ Str("corrections") :> PyList(<<>>)))

GrammarParsed(text, response, parsed) ==
    IF parsed.kind = "return" THEN GrammarResult(text, parsed.value)
    ELSE IF parsed.value.t = "JSONDecodeError" THEN GrammarFallback(text, response)
    ELSE ErrorResult(parsed.value)

GrammarResponse(text, c) ==
    Did(c.sent,
        IF c.outcome.kind = "raise" THEN ErrorResult(c.outcome.value)
        ELSE GrammarParsed(text, c.outcome.value, _extract_json(c.outcome.value)))

\* GroqService.check_grammar(text, model)
check_grammar(text, model, reply) ==
    GrammarResponse(text,
        _call_groq(<<[role |-> S("user"), content |-> PyStr(GrammarPrompt(text.v))]>>,
                   Or(model, TEXT_MODEL), 1, 8192, TRUE, reply))

ChatSystemPrompt ==
    Str("You are a helpful, friendly, and knowledgeable AI assistant. [...]")

ChatResponse(c) ==
    Did(c.sent,
        IF c.outcome.kind = "raise" THEN ErrorResult(c.outcome.value)
        ELSE Return(PyDict(Str("response") :> c.outcome.value)))

\* GroqService.chat(message, conversation_history, model)
chat(message, conversation_history, model, reply) ==
    ChatResponse(
        _call_groq(<<[role |-> S("system"), content |-> PyStr(ChatSystemPrompt)]>>
                   \o (IF Truthy(conversation_history) THEN conversation_history.v ELSE <<>>)
                   \o <<[role |-> S("user"), content |-> message]>>,
                   Or(model, TEXT_MODEL), 1, 8192, TRUE, reply))

ParaphrasePrompt(text, style) ==
    Str("You are an expert language paraphraser. [...]\n\nOriginal text: ")
    \o text \o Str("\nStyle: ") \o style
    \o Str("\n\nStyle Guidelines: [...]\n\nProvide only the paraphrased text without any additional comments or explanations.")

\* response.strip(), which a response that is no str does not have
Stripped(response) ==
    IF response.t = "str" THEN Return(PyStr(Strip(response.v)))
    ELSE Raise("AttributeError", "'" \o response.t \o "' object has no attribute 'strip'")

ParaphraseStripped(text, style, stripped) ==
    IF stripped.kind = "raise" THEN ErrorResult(stripped.value)
    ELSE Return(PyDict(Str("original_text") :> text
                       @@ Str("paraphrased_text") :> stripped.value
                       @@ Str("style") :> style))

ParaphraseResponse(text, style, c) ==
    Did(c.sent,
        IF c.outcome.kind = "raise" THEN ErrorResult(c.outcome.value)
        ELSE ParaphraseStripped(text, style, Stripped(c.outcome.value)))

\* GroqService.paraphrase(text, style, model)
paraphrase(text, style, model, reply) ==
    ParaphraseResponse(text, style,
        _call_groq(<<[role |-> S("user"),
                      content |-> PyStr(ParaphrasePrompt(text.v, style.v))]>>,
                   Or(model, TEXT_MODEL), 1, 8192, TRUE, reply))

PlagiarismPrompt(text) ==
    Str("You are a plagiarism detection system. [...]\n\nHere is the text to analyze:\n")
    \o text
    \o Str("\n\nRespond with ONLY a valid JSON object following this format: [...]")

\* return {"original_text": ..., "plagiarism_score": ..., ...}
PlagiarismFields(text, score, flagged, feedback) ==
    IF score.kind = "raise" THEN ErrorResult(score.value)
    ELSE IF flagged.kind = "raise" THEN ErrorResult(flagged.value)
    ELSE IF feedback.kind = "raise" THEN ErrorResult(feedback.value)
    ELSE Return(PyDict(Str("original_text") :> text
                       @@ Str("plagiarism_score") :> score.value
                       @@ Str("flagged_sentences") :> flagged.value
                       @@ Str("feedback") :> feedback.value))

PlagiarismFeedback(text, ensured) ==
    IF ensured.kind = "raise" THEN ErrorResult(ensured.value)
    ELSE PlagiarismFields(text, GetItem(ensured.value, S("plagiarism_score")),
                          GetItem(ensured.value, S("flagged_sentences")),
                          GetItem(ensured.value, S("feedback")))

PlagiarismFlagged(text, ensured) ==
    IF ensured.kind = "raise" THEN ErrorResult(ensured.value)
    ELSE PlagiarismFeedback(text,
             EnsureField(ensured.value, "feedback", S("No issues detected in the text.")))

PlagiarismScore(text, ensured) ==
    IF ensured.kind = "raise" THEN ErrorResult(ensured.value)
    ELSE PlagiarismFlagged(text, EnsureField(ensured.value, "flagged_sentences", PyList(<<>>)))

\* the body of check_plagiarism's try block after the response was parsed;
\* what it raises is caught by except Exception
PlagiarismResult(text, parsed) ==
    PlagiarismScore(text, EnsureField(parsed, "plagiarism_score", PyInt(0)))

\* a response that does not parse is answered with an error
PlagiarismFallbackError(text) ==
    Return(PyDict(Str("error") :> S("Unable to analyze text. Please try again.")))

\* except json.JSONDecodeError, in check_plagiarism
PlagiarismFallback(text) ==
    Return(PyDict(Str("original_text") :> text
                  @@ Str("plagiarism_score") :> PyInt(0)
                  @@ Str("flagged_sentences") :> PyList(<<>>)
                  @@ Str("feedback") :> S("Unable to analyze text. Please try again.")))

PlagiarismParsed(text, parsed) ==
    IF parsed.kind = "return" THEN PlagiarismResult(text, parsed.value)
    ELSE IF parsed.value.t = "JSONDecodeError" THEN PlagiarismFallback(text)
    ELSE ErrorResult(parsed.value)

\* a transport failure is answered like a response that does not parse
PlagiarismResponseDefaulted(text, c) ==
    Did(c.sent,
        IF c.outcome.kind = "raise" THEN PlagiarismFallback(text)
        ELSE PlagiarismParsed(text, _extract_json(c.outcome.value)))

PlagiarismResponse(text, c) ==
    Did(c.sent,
        IF c.outcome.kind = "raise" THEN ErrorResult(c.outcome.value)
        ELSE PlagiarismParsed(text, _extract_json(c.outcome.value)))

\* GroqService.check_plagiarism(text, model)
check_plagiarism(text, model, reply) ==
    PlagiarismResponse(text,
        _call_groq(<<[role |-> S("user"), content |-> PyStr(PlagiarismPrompt(text.v))]>>,
                   Or(model, TEXT_MODEL), 1, 8192, TRUE, reply))

SummaryPrompt(transcript, video_title) ==
    Str("You are an expert content summarizer. [...]\n")
    \o (IF Truthy(video_title) THEN Str("\nVideo Title: ") \o video_title.v ELSE <<>>)
    \o Str("\n\nTranscript:\n")
    \o transcript
    \o Str("\n\nPlease provide: [...]\n\nFormat your response clearly with headers.")

SummaryResponse(video_title, c) ==
    Did(c.sent,
        IF c.outcome.kind = "raise" THEN ErrorResult(c.outcome.value)
        ELSE Return(PyDict(Str("summary") :> c.outcome.value
                           @@ Str("title") :> Or(video_title, S("YouTube Video Summary")))))

\* GroqService.summarize_youtube(transcript, video_title, model)
summarize_youtube(transcript, video_title, model, reply) ==
    SummaryResponse(video_title,
        _call_groq(<<[role |-> S("user"),
                      content |-> PyStr(SummaryPrompt(transcript.v, video_title))]>>,
                   Or(model, TEXT_MODEL), 1, 2048, TRUE, reply))

\* GroqService.analyze_image(image_url, prompt, model)
analyze_image(image_url, prompt, model, reply) ==
    Did(<<[model |-> Or(model, IMAGE_MODEL),
           messages |-> <<[role |-> S("user"),
                           content |-> PyList(<<[type |-> S("text"), text |-> prompt],
                                                [type |-> S("image_url"),
                                                 image_url |-> [url |-> image_url]]>>)]>>,
           temperature |-> 1,
           max_completion_tokens |-> 1024,
           top_p |-> 1,
           stream |-> FALSE,
           stop |-> None]>>,
        IF reply.kind = "raise" THEN ErrorResult(reply.value)
        ELSE Return(PyDict(Str("analysis") :> reply.value)))

-----------------------------------------------------------------------------
(* The pages: each holds the gateway, or None when it could not be built   *)

\* the gateway is built with no key to read
GroqServiceKeyless(key) == Return("GroqService")

\* GroqService(): __init__ reads the key from the environment
GroqService(key) ==
    IF ~Truthy(key)
    THEN Raise("ValueError",
               "GROQ_API_KEY not found in environment variables. Please set it in your .env file.")
    ELSE Return("GroqService")

\* what get_groq_service leaves in _groq_service and gives back
Got(cached, outcome) == [cached |-> cached, outcome |-> outcome]

Constructed(built) ==
    IF built.kind = "raise" THEN Got("None", built) ELSE Got(built.value, built)

\* get_groq_service(), with cached the singleton it finds
get_groq_service(cached, key) ==
    IF cached = "None" THEN Constructed(GroqService(key)) ELSE Got(cached, Return(cached))

\* init_groq_service() of a page: None when the gateway raised ValueError
init_groq_service(got) ==
    IF got.outcome.kind = "raise" THEN "None" ELSE got.outcome.value

NotInitialized ==
    Return(PyDict(Str("error") :> S("Groq service not initialized. Please check your API key.")))

\* check_grammar(text) of pages/Grammar_Check.py
page_check_grammar(service, text, reply) ==
    IF service = "None" THEN Did(<<>>, NotInitialized)
    ELSE check_grammar(text, None, reply)

\* paraphrase_text(text, style) of pages/Paraphraser.py
paraphrase_text(service, text, style, reply) ==
    IF service = "None" THEN Did(<<>>, NotInitialized)
    ELSE paraphrase(text, style, None, reply)

\* check_plagiarism(text) of pages/Plagiarism_Checker.py
page_check_plagiarism(service, text, reply) ==
    IF service = "None" THEN Did(<<>>, NotInitialized)
    ELSE check_plagiarism(text, None, reply)

\* the answer chat_with_ai makes of the result of chat
ChatAnswer(c) ==
    Did(c.sent,
        IF Has(c.outcome.value, "error")
        THEN Return(PyStr(Str("Error: ") \o Get(c.outcome.value, "error").v))
        ELSE IF Has(c.outcome.value, "response") THEN Return(Get(c.outcome.value, "response"))
        ELSE Return(S("No response received")))

\* chat_with_ai(message) of pages/AI_Chat.py, with history the chat_history it reads
chat_with_ai(service, message, history, reply) ==
    IF service = "None"
    THEN Did(<<>>, Return(S("Error: Groq service not initialized. Please check your API key.")))
    ELSE ChatAnswer(chat(message, PyList(history), None, reply))

\* " ".join(texts)
RECURSIVE Join(_)
Join(texts) ==
    IF texts = <<>> THEN <<>>
    ELSE IF Len(texts) = 1 THEN texts[1]
    ELSE texts[1] \o <<" ">> \o Join(Tail(texts))

\* get_youtube_transcript(video_id): fetched is what the transcript API
\* does, the texts of the caption items or an exception
get_youtube_transcript(fetched) ==
    IF fetched.kind = "return"
    THEN PyDict(Str("transcript") :> PyStr(Join(fetched.value.v)))
    ELSE IF fetched.value.t = "ImportError"
    THEN PyDict(Str("error") :>
            S("youtube-transcript-api is not installed. Please run: pip install youtube-transcript-api"))
    ELSE IF \/ Contains(fetched.value.v, Str("Could not retrieve"))
            \/ Contains(fetched.value.v, Str("No transcript"))
            \/ Contains(fetched.value.v, Str("TranscriptsDisabled"))
    THEN PyDict(Str("error") :>
            S("No transcript available for this video. The video might not have captions enabled."))
    ELSE PyDict(Str("error") :> PyStr(Str("Error getting transcript: ") \o fetched.value.v))

max_chars == 15000

TruncationMarker == Str("... [transcript truncated]")

\* the transcript goes out as it came
TruncateNothing(transcript) == transcript

\* if len(transcript) > max_chars: transcript = transcript[:max_chars] + marker
Truncate(transcript) ==
    IF Len(transcript) > max_chars
    THEN SubSeq(transcript, 1, max_chars) \o TruncationMarker
    ELSE transcript

\* the summary is asked for whatever the transcript source gave
SummarizeTranscriptAnyway(transcript_result, reply) ==
    IF Has(transcript_result, "error")
    THEN summarize_youtube(Get(transcript_result, "error"), S(""), None, reply)
    ELSE summarize_youtube(PyStr(Truncate(Get(transcript_result, "transcript").v)),
                           S(""), None, reply)

SummarizeTranscript(transcript_result, reply) ==
    IF Has(transcript_result, "error") THEN Did(<<>>, Return(transcript_result))
    ELSE summarize_youtube(PyStr(Truncate(Get(transcript_result, "transcript").v)),
                           S(""), None, reply)

\* summarize_video(video_id) of pages/Youtube_summarizer.py
summarize_video(service, fetched, reply) ==
    IF service = "None" THEN Did(<<>>, NotInitialized)
    ELSE SummarizeTranscript(get_youtube_transcript(fetched), reply)

-----------------------------------------------------------------------------
(* The inputs the operations are driven with                               *)

\* a chat session is followed for at most this many processed sends
MaxTurns == 2
\* at most this many atoms make up a string value of a generated JSON object
MaxStrAtoms == 2
\* transcripts are generated with lengths up to this far around max_chars
MaxOver == 1

Texts == {S("She dont like apples."), S("")}
Styles == {S("Formal"), S("Shorten")}
ModelOverrides ==
    {None, S(""), S("llama-3.3-70b-versatile"), S("openai/gpt-oss-20b"),
     S("meta-llama/llama-4-maverick-17b-128e-instruct")}

\* what the transport raises
TransportErrors ==
    {[kind |-> "raise", value |-> [t |-> "APIConnectionError", v |-> Str("Connection error.")]],
     [kind |-> "raise", value |-> [t |-> "RateLimitError", v |-> Str("Error code: 429")]]}

\* bodies a model may answer with
GrammarBodies ==
    {Str("{\"corrected_text\": \"She doesn't like apples.\", \"corrections\": [{\"error\": \"dont\", \"suggestion\": \"doesn't\"}]}"),
     Str("{\"corrected_text\": \"She doesn't like apples.\"}"),
     Str("{\"corrections\": [], \"note\": \"none\"}"),
     Str("{}")}
PlagiarismBodies ==
    {Str("{\"plagiarism_score\": 78, \"flagged_sentences\": [\"In conclusion, it works.\"], \"feedback\": \"Generic.\"}"),
     Str("{\"plagiarism_score\": 100, \"flagged_sentences\": []}"),
     Str("{\"plagiarism_score\": 150}"),
     Str("{\"plagiarism_score\": -5, \"feedback\": \"Generic.\"}"),
     Str("{\"plagiarism_score\": \"high\"}"),
     Str("{\"plagiarism_score\": null}"),
     Str("{\"feedback\": \"Generic.\"}")}
NonObjectBodies ==
    {Str("[1, 2]"), Str("7"), Str("null"), Str("true"),
     Str("\"corrected_text and corrections\""),
     Str("[\"corrected_text\", \"corrections\"]"),
     Str("[\"plagiarism_score\", \"flagged_sentences\", \"feedback\"]")}
NonJsonBodies ==
    {Str("I cannot help with that."), Str(""), Str("{\"corrected_text\": \"She")}
Bodies == GrammarBodies \cup PlagiarismBodies \cup NonObjectBodies \cup NonJsonBodies

\* the ways a model wraps its answer
Bare(body) == body
Tagged(body) == JsonFence \o <<"\n">> \o body \o <<"\n">> \o Fence
Untagged(body) == Fence \o <<"\n">> \o body \o <<"\n">> \o Fence
Chatty(body) == Str("Here is the result:\n\n") \o Tagged(body) \o Str("\n\nLet me know!")

Contents ==
    UNION {{Bare(b), Tagged(b), Untagged(b), Chatty(b)} : b \in Bodies}

\* what the transport does with a request
Replies ==
    TransportErrors \cup {Return(None)} \cup {Return(PyStr(c)) : c \in Contents}

\* the replies that tell apart the operations that do not parse the content
PlainReplies ==
    TransportErrors
    \cup {Return(None), Return(S("Done.")), Return(S("  A summary.\n")),
          Return(PyStr(Tagged(Str("{}"))))}

Succeeded(reply) == reply.kind = "return"

\* a transcript text of n characters
Caption(n) == [i \in 1..n |-> CASE i % 10 = 0 -> " " [] i % 10 < 5 -> "a" [] OTHER -> "b"]

\* caption items whose joined text has the lengths around max_chars
CaptionItems ==
    {<<>>, <<Str("hello"), Str("world")>>, <<Caption(max_chars + 5000)>>}
    \cup {<<Caption(7000), Caption(n - 7001)>> :
            n \in (max_chars - MaxOver)..(max_chars + MaxOver)}

\* what the transcript API does
Fetches ==
    {Return(PyList(items)) : items \in CaptionItems}
    \cup {[kind |-> "raise", value |-> [t |-> "ImportError", v |-> Str("No module named 'youtube_transcript_api'")]],
          [kind |-> "raise", value |-> [t |-> "TranscriptsDisabled", v |-> Str("Could not retrieve a transcript for the video")]],
          [kind |-> "raise", value |-> [t |-> "ConnectionError", v |-> Str("Connection refused")]]}

\* the characters json.dumps writes for one character of a str
EscapeChar(c) ==
    CASE c = "\"" -> <<"\\", "\"">>
      [] c = "\\" -> <<"\\", "\\">>
      [] c = "\n" -> <<"\\", "n">>
      [] c = "\r" -> <<"\\", "r">>
      [] c = "\t" -> <<"\\", "t">>
      [] c = "\f" -> <<"\\", "f">>
      [] OTHER -> <<c>>

RECURSIVE Escaped(_)
Escaped(chars) ==
    IF chars = <<>> THEN <<>> ELSE EscapeChar(Head(chars)) \o Escaped(Tail(chars))

RECURSIVE IntChars(_)
IntChars(n) ==
    IF n < 0 THEN <<"-">> \o IntChars(-n)
    ELSE IF n < 10 THEN <<CHOOSE c \in Digits : DigitValue(c) = n>>
    ELSE IntChars(n \div 10) \o IntChars(n % 10)

\* json.dumps(value) with the default separators; the members of an object
\* are given in their order, as a sequence of <<key, value>>
RECURSIVE Dumps(_), DumpsList(_), DumpsItems(_)
Dumps(value) ==
    CASE value.t = "str" -> <<"\"">> \o Escaped(value.v) \o <<"\"">>
      [] value.t = "int" -> IntChars(value.v)
      [] value.t = "bool" -> IF value.v THEN Str("true") ELSE Str("false")
      [] value.t = "NoneType" -> Str("null")
      [] value.t = "list" -> <<"[">> \o DumpsList(value.v) \o <<"]">>
      [] value.t = "items" -> <<"{">> \o DumpsItems(value.v) \o <<"}">>

DumpsList(values) ==
    IF values = <<>> THEN <<>>
    ELSE IF Len(values) = 1 THEN Dumps(values[1])
    ELSE Dumps(values[1]) \o Str(", ") \o DumpsList(Tail(values))

DumpsItems(items) ==
    IF items = <<>> THEN <<>>
    ELSE IF Len(items) = 1
         THEN Dumps(PyStr(items[1][1])) \o Str(": ") \o Dumps(items[1][2])
    ELSE Dumps(PyStr(items[1][1])) \o Str(": ") \o Dumps(items[1][2]) \o Str(", ")
         \o DumpsItems(Tail(items))

\* the dict that has the members items
RECURSIVE DictOf(_)
DictOf(items) ==
    IF items = <<>> THEN EmptyDict
    ELSE (items[Len(items)][1] :> items[Len(items)][2])
         @@ DictOf(SubSeq(items, 1, Len(items) - 1))

\* the string values of the generated objects: up to MaxStrAtoms of these
StringAtoms == {<<"a">>, <<"\n">>, <<"\"">>, Fence, Str("json")}

RECURSIVE AtomStrings(_)
AtomStrings(n) ==
    IF n = 0 THEN {<<>>}
    ELSE {<<>>} \cup {a \o s : a \in StringAtoms, s \in AtomStrings(n - 1)}

\* well-formed JSON objects, each the sequence of its members
JsonObjects ==
    {<<<<Str("a"), PyStr(s)>>>> : s \in AtomStrings(MaxStrAtoms)}
    \cup {<<<<Str("k"), PyInt(7)>>, <<Str("a"), PyList(<<PyStr(s), None>>)>>>> :
            s \in AtomStrings(MaxStrAtoms)}

\* texts that are no serialization of an object
OtherBodies ==
    {Str("I cannot help with that."), Str(""), Str("{\"a\": "), Str("[1, 2]"), Str("7"),
     Str("{\"a\": 1,}"), Str("nul"), Str("{'a': 1}")}

\* how a body is embedded in the text: what precedes it, the fencing, what follows
Prefixes == {<<>>, Str("Here is the result:\n"), Fence \o Str("\n{}\n") \o Fence \o <<" ">>}
Suffixes == {<<>>, Str("\nLet me know!"), <<" ">> \o Fence}
Fencings == {"none", "json", "json tight", "plain"}

Fenced(fencing, body) ==
    CASE fencing = "none" -> body
      [] fencing = "json" -> Tagged(body)
      [] fencing = "json tight" -> JsonFence \o body \o Fence
      [] fencing = "plain" -> Untagged(body)

\* what os.getenv finds
ApiKeys == {None, S(""), S("gsk_test")}

\* what the user types into the message box, and what the transport does
\* with a chat request
UserInputs == {S(""), S("Hi")}
ChatReplies ==
    {[kind |-> "raise", value |-> [t |-> "APIConnectionError", v |-> Str("Connection error.")]],
     Return(None), Return(S("Hello!"))}

Histories ==
    {None, PyList(<<>>),
     PyList(<<[role |-> S("user"), content |-> S("Hi")],
              [role |-> S("assistant"), content |-> S("Hello!")]>>)}

-----------------------------------------------------------------------------
(* The state machine: one action per operation                             *)

NoReply == Return(None)

Invoke(op, args, reply, did) ==
    /\ call.op = "none"
    /\ call' = [op |-> op, args |-> args, reply |-> reply]
    /\ requests' = did.sent
    /\ result' = did.outcome
    /\ UNCHANGED session

\* the state once the script of a page has run to its widgets
Init ==
    /\ api_key \in ApiKeys
    /\ _groq_service = get_groq_service("None", api_key).cached
    /\ groq_service = init_groq_service(get_groq_service("None", api_key))
    /\ chat_history = <<>>
    /\ processing_done = TRUE
    /\ call = [op |-> "none", args |-> <<>>, reply |-> NoReply]
    /\ requests = <<>>
    /\ result = Return(None)

\* the methods of the gateway, which exist once it was built
CallGroq ==
    \E model \in ModelOverrides, use_reasoning \in BOOLEAN, reply \in PlainReplies :
        /\ groq_service = "GroqService"
        /\ Invoke("_call_groq",
                  [messages |-> <<[role |-> S("user"), content |-> S("Hi")]>>,
                   model |-> model, use_reasoning |-> use_reasoning],
                  reply,
                  _call_groq(<<[role |-> S("user"), content |-> S("Hi")]>>, model, 1, 8192,
                             use_reasoning, reply))

CheckGrammar ==
    \E text \in Texts, model \in ModelOverrides, reply \in Replies :
        /\ groq_service = "GroqService"
        /\ Invoke("check_grammar", [text |-> text, model |-> model], reply,
                  check_grammar(text, model, reply))

Chat ==
    \E message \in Texts, history \in Histories, model \in ModelOverrides, reply \in PlainReplies :
        /\ groq_service = "GroqService"
        /\ Invoke("chat", [message |-> message, conversation_history |-> history, model |-> model],
                  reply, chat(message, history, model, reply))

Paraphrase ==
    \E text \in Texts, style \in Styles, model \in ModelOverrides, reply \in PlainReplies :
        /\ groq_service = "GroqService"
        /\ Invoke("paraphrase", [text |-> text, style |-> style, model |-> model], reply,
                  paraphrase(text, style, model, reply))

CheckPlagiarism ==
    \E text \in Texts, model \in ModelOverrides, reply \in Replies :
        /\ groq_service = "GroqService"
        /\ Invoke("check_plagiarism", [text |-> text, model |-> model], reply,
                  check_plagiarism(text, model, reply))

SummarizeYoutube ==
    \E items \in CaptionItems, title \in {S(""), S("Talk")}, model \in ModelOverrides,
       reply \in PlainReplies :
        /\ groq_service = "GroqService"
        /\ Invoke("summarize_youtube",
                  [transcript |-> PyStr(Join(items)), video_title |-> title, model |-> model],
                  reply, summarize_youtube(PyStr(Join(items)), title, model, reply))

AnalyzeImage ==
    \E prompt \in {S("Describe this image in detail."), S("What is this?")},
       model \in ModelOverrides, reply \in PlainReplies :
        /\ groq_service = "GroqService"
        /\ Invoke("analyze_image",
                  [image_url |-> S("https://example.com/cat.png"), prompt |-> prompt, model |-> model],
                  reply,
                  analyze_image(S("https://example.com/cat.png"), prompt, model, reply))

\* the functions of the pages; the transport acts only when a gateway exists
PageReplies == IF groq_service = "None" THEN {NoReply} ELSE Replies
PagePlainReplies == IF groq_service = "None" THEN {NoReply} ELSE PlainReplies

PageCheckGrammar ==
    \E text \in Texts \ {S("")}, reply \in PageReplies :
        Invoke("page_check_grammar", [text |-> text], reply,
               page_check_grammar(groq_service, text, reply))

ParaphraseText ==
    \E text \in Texts \ {S("")}, style \in Styles, reply \in PagePlainReplies :
        Invoke("paraphrase_text", [text |-> text, style |-> style], reply,
               paraphrase_text(groq_service, text, style, reply))

PageCheckPlagiarism ==
    \E text \in Texts \ {S("")}, reply \in PageReplies :
        Invoke("page_check_plagiarism", [text |-> text], reply,
               page_check_plagiarism(groq_service, text, reply))

SummarizeVideo ==
    \E fetched \in Fetches, reply \in PagePlainReplies :
        Invoke("summarize_video", [fetched |-> fetched], reply,
               summarize_video(groq_service, fetched, reply))

\* _extract_json on a text whose making the call records beside the argument
ExtractFrom(prefix, fencing, items, body, suffix) ==
    /\ call.op = "none"
    /\ call' = [op |-> "_extract_json",
                args |-> [content |-> PyStr(prefix \o Fenced(fencing, body) \o suffix)],
                reply |-> NoReply,
                embed |-> [prefix |-> prefix, fencing |-> fencing, items |-> items,
                           body |-> body, suffix |-> suffix]]
    /\ requests' = <<>>
    /\ result' = _extract_json(PyStr(prefix \o Fenced(fencing, body) \o suffix))
    /\ UNCHANGED session

ExtractObject ==
    \E prefix \in Prefixes, fencing \in Fencings, items \in JsonObjects, suffix \in Suffixes :
        /\ groq_service = "GroqService"
        /\ ExtractFrom(prefix, fencing, [t |-> "items", v |-> items],
                       Dumps([t |-> "items", v |-> items]), suffix)

ExtractOther ==
    \E prefix \in Prefixes, fencing \in Fencings, body \in OtherBodies, suffix \in Suffixes :
        /\ groq_service = "GroqService"
        /\ ExtractFrom(prefix, fencing, None, body, suffix)

\* the chat page.  The user acts when no run of the script is under way.
\* if send_clicked: if user_input and st.session_state.processing_done:
\* the flag is lowered and the user turn appended, then the answer awaited
SendClicked ==
    \E user_input \in UserInputs :
        /\ call.op = "none"
        /\ Len(chat_history) < 2 * MaxTurns
        /\ requests' = <<>>
        /\ result' = Return(None)
        /\ UNCHANGED <<api_key, _groq_service, groq_service>>
        /\ IF Truthy(user_input) /\ processing_done
           THEN /\ processing_done' = FALSE
                /\ chat_history' = Append(chat_history,
                                          [role |-> S("user"), content |-> user_input])
                /\ call' = [op |-> "send", args |-> [user_input |-> user_input],
                            reply |-> NoReply]
           ELSE /\ call' = [op |-> "send_ignored", args |-> [user_input |-> user_input],
                            reply |-> NoReply]
                /\ UNCHANGED <<chat_history, processing_done>>

\* an answer that reports an error is not recorded
RespondedUnrecorded(reply, did) ==
    /\ chat_history' =
         IF did.sent = <<>> \/ reply.kind = "raise" THEN chat_history
         ELSE Append(chat_history, [role |-> S("assistant"), content |-> did.outcome.value])
    /\ processing_done' = TRUE
    /\ call' = [op |-> "chat_with_ai", args |-> call.args, reply |-> reply]
    /\ requests' = did.sent
    /\ result' = did.outcome
    /\ UNCHANGED <<api_key, _groq_service, groq_service>>

\* the flag is raised only after a completion
RespondedFlagLeftLow(reply, did) ==
    /\ chat_history' = Append(chat_history,
                              [role |-> S("assistant"), content |-> did.outcome.value])
    /\ processing_done' = (did.sent # <<>> /\ reply.kind = "return")
    /\ call' = [op |-> "chat_with_ai", args |-> call.args, reply |-> reply]
    /\ requests' = did.sent
    /\ result' = did.outcome
    /\ UNCHANGED <<api_key, _groq_service, groq_service>>

\* ai_response = chat_with_ai(user_input); the assistant turn is appended and
\* the flag raised
Responded(reply, did) ==
    /\ chat_history' = Append(chat_history,
                              [role |-> S("assistant"), content |-> did.outcome.value])
    /\ processing_done' = TRUE
    /\ call' = [op |-> "chat_with_ai", args |-> call.args, reply |-> reply]
    /\ requests' = did.sent
    /\ result' = did.outcome
    /\ UNCHANGED <<api_key, _groq_service, groq_service>>

SendResponse ==
    \E reply \in (IF groq_service = "None" THEN {NoReply} ELSE ChatReplies) :
        /\ call.op = "send"
        /\ Responded(reply, chat_with_ai(groq_service, call.args.user_input, chat_history, reply))

\* if st.button("Clear Chat"): st.session_state.chat_history = []
ClearChat ==
    /\ call.op = "none"
    /\ chat_history' = <<>>
    /\ call' = [op |-> "clear_chat", args |-> <<>>, reply |-> NoReply]
    /\ requests' = <<>>
    /\ result' = Return(None)
    /\ UNCHANGED <<api_key, _groq_service, groq_service, processing_done>>

\* the script runs again for the next interaction: the result, a local of
\* the run that made the call, is gone
Rerun ==
    /\ call.op \notin {"none", "send"}
    /\ call' = [op |-> "none", args |-> <<>>, reply |-> NoReply]
    /\ requests' = <<>>
    /\ result' = Return(None)
    /\ UNCHANGED session

Next ==
    \/ Rerun
    \/ CallGroq
    \/ CheckGrammar
    \/ Chat
    \/ Paraphrase
    \/ CheckPlagiarism
    \/ SummarizeYoutube
    \/ AnalyzeImage
    \/ PageCheckGrammar
    \/ ParaphraseText
    \/ PageCheckPlagiarism
    \/ SummarizeVideo

Spec == Init /\ [][Next]_vars

\* the pages as a user drives them in one session
NextPages ==
    \/ Rerun
    \/ PageCheckGrammar
    \/ ParaphraseText
    \/ PageCheckPlagiarism
    \/ SummarizeVideo
    \/ SendClicked
    \/ SendResponse
    \/ ClearChat

SpecPages == Init /\ [][NextPages]_vars

\* the send handler runs on from lowering the flag to raising it: the call of
\* chat_with_ai returns in every case, so a send under way is answered
SpecPagesFair == SpecPages /\ WF_vars(SendResponse)

\* the extraction alone, on the generated texts
NextExtract ==
    \/ Rerun
    \/ ExtractObject
    \/ ExtractOther

SpecExtract == Init /\ [][NextExtract]_vars

-----------------------------------------------------------------------------
(* Properties                                                              *)

Extracted == call.op = "_extract_json"

Parses(text) == JsonLoads(text).kind = "return"

MatchParses(match) == match.found /\ Parses(match.group1)

\* one of the three texts the extraction may take parses as JSON
AnyCandidateParses(text) ==
    \/ MatchParses(Search(JsonFence, text))
    \/ MatchParses(Search(Fence, text))
    \/ Parses(text)

\* C1: the extraction tries the interior of the first json-tagged block, the
\* interior of the first fenced block and the whole text: whenever one of
\* the three parses, the extraction returns a parsed value, not an error
C1_AnyParsingCandidateIsReturned ==
    (Extracted /\ AnyCandidateParses(call.args.content.v)) => result.kind = "return"

\* the requests a call handed over through _call_groq
Dispatched == call.op \notin {"none", "analyze_image", "_extract_json"} /\ requests # <<>>

HasHint(request) == "reasoning_effort" \in DOMAIN request

InFamily(request) == Contains(request.model.v, Str("gpt-oss"))

\* the use_reasoning argument of the dispatch: the feature functions leave
\* it at its default
UseReasoning == IF call.op = "_call_groq" THEN call.args.use_reasoning ELSE TRUE

\* C2, as stated: whatever use_reasoning is, the request carries the
\* reasoning hint exactly when the resolved model contains "gpt-oss"
C2_HintIffFamily ==
    Dispatched => \A i \in 1..Len(requests) : HasHint(requests[i]) <=> InFamily(requests[i])

\* C2, amended: the request carries the reasoning hint exactly when
\* use_reasoning is true and the resolved model contains "gpt-oss"; no
\* request to a model outside the family carries it
C2_HintIffReasoningAndFamily ==
    Dispatched =>
        \A i \in 1..Len(requests) :
            /\ HasHint(requests[i]) <=> (UseReasoning /\ InFamily(requests[i]))
            /\ ~InFamily(requests[i]) => ~HasHint(requests[i])

\* a dispatch with use_reasoning off to a model of the family went without the hint
C2_Witness ==
    /\ call.op = "_call_groq"
    /\ ~call.args.use_reasoning
    /\ requests # <<>>
    /\ InFamily(requests[1])
    /\ ~HasHint(requests[1])

\* the text was made from a JSON object
OfObject == Extracted /\ call.embed.items.t = "items"

TheObject == Return(PyDict(DictOf(call.embed.items.v)))

\* C3: for a text that holds the serialization of an object in a json-tagged
\* block, whatever surrounds the block and whatever the strings of the object
\* hold, the extraction returns the object
C3_TaggedBlockRoundTrip ==
    (OfObject /\ call.embed.fencing \in {"json", "json tight"}) => result = TheObject

\* C4: for a text that is the serialization of an object and nothing else,
\* whatever the strings of the object hold, the extraction returns the object
C4_BareRoundTrip ==
    (/\ OfObject
     /\ call.embed.fencing = "none"
     /\ call.embed.prefix = <<>>
     /\ call.embed.suffix = <<>>) => result = TheObject

\* the call was check_grammar or check_plagiarism, of the gateway or of the page
GrammarChecked == call.op \in {"check_grammar", "page_check_grammar"}
PlagiarismChecked == call.op \in {"check_plagiarism", "page_check_plagiarism"}

\* the transport was called and returned
TransportSucceeded == requests # <<>> /\ Succeeded(call.reply)
TransportFailed == requests # <<>> /\ ~Succeeded(call.reply)

RequiredKeys ==
    IF GrammarChecked THEN {Str("original_text"), Str("corrected_text"), Str("corrections")}
    ELSE {Str("original_text"), Str("plagiarism_score"), Str("flagged_sentences"),
          Str("feedback")}

IsResult == result.kind = "return" /\ result.value.t = "dict"

\* C5: whenever the transport call of check_grammar or check_plagiarism
\* succeeds, whatever the model returned, the result has every required key
\* of the feature and no error key
C5_RequiredKeysWheneverTransportSucceeds ==
    ((GrammarChecked \/ PlagiarismChecked) /\ TransportSucceeded) =>
        /\ IsResult
        /\ RequiredKeys \subseteq DOMAIN result.value.v
        /\ Str("error") \notin DOMAIN result.value.v

\* the feature functions of the gateway, and the page functions over them
FeatureFunctions ==
    {"check_grammar", "chat", "paraphrase", "check_plagiarism", "summarize_youtube",
     "analyze_image"}
PageFunctions ==
    {"page_check_grammar", "paraphrase_text", "page_check_plagiarism", "summarize_video"}

\* C6: whatever the transport does (it fails, it returns no content, it
\* returns any text), a feature function returns a mapping and raises nothing
C6_NoExceptionCrossesFeatureBoundary ==
    call.op \in FeatureFunctions \cup PageFunctions => IsResult

\* a feature function whose extraction raised a TypeError, on a response
\* without content, returned an error result
C6_Witness ==
    /\ call.op \in FeatureFunctions
    /\ TransportSucceeded
    /\ call.reply.value = None
    /\ IsResult
    /\ Str("error") \in DOMAIN result.value.v

\* the response is a text the extraction fails to parse
ResponseUnparsable ==
    /\ TransportSucceeded
    /\ call.reply.value.t = "str"
    /\ _extract_json(call.reply.value).kind = "raise"
    /\ _extract_json(call.reply.value).value.t = "JSONDecodeError"

\* C7: when the extraction fails to parse the response, check_grammar
\* returns the raw response as corrected_text, no corrections and the input
\* as original_text
C7_GrammarFallbackOnParseError ==
    (GrammarChecked /\ ResponseUnparsable) =>
        result = Return(PyDict(Str("original_text") :> call.args.text
                               @@ Str("corrected_text") :> call.reply.value
                               @@ Str("corrections") :> PyList(<<>>)))

\* check_grammar returned the fallback for a response that is no JSON
C7_Witness ==
    /\ GrammarChecked
    /\ ResponseUnparsable
    /\ call.reply.value = S("I cannot help with that.")
    /\ IsResult
    /\ result.value.v[Str("corrected_text")] = S("I cannot help with that.")

\* C8: when the transport call of check_plagiarism fails, the result is the
\* mapping of the one key error, to the message of the failure
C8_PlagiarismTransportFailureIsErrorOnly ==
    (PlagiarismChecked /\ TransportFailed) =>
        result = Return(PyDict(Str("error") :>
                     PyStr(Str("Groq API error: ") \o call.reply.value.v)))

\* check_plagiarism returned the error of a connection that failed
C8_Witness ==
    /\ PlagiarismChecked
    /\ TransportFailed
    /\ IsResult
    /\ DOMAIN result.value.v = {Str("error")}
    /\ result.value.v[Str("error")] = S("Groq API error: Connection error.")

\* the transcript of the video summarize_video was called for
FetchedTranscript == Join(call.args.fetched.value.v)

Summarized == call.op = "summarize_video" /\ requests # <<>>

\* what the request is to hold for the transcript
Bounded(transcript) ==
    IF Len(transcript) > 15000
    THEN SubSeq(transcript, 1, 15000) \o Str("... [transcript truncated]")
    ELSE transcript

\* the transcript text between the two fixed parts of the prompt of a request
Embedded(request) ==
    SubSeq(request.messages[1].content.v,
           Len(SummaryPrompt(<<>>, S(""))) - Len(Str("\n\nPlease provide: [...]\n\nFormat your response clearly with headers.")) + 1,
           Len(request.messages[1].content.v) - Len(Str("\n\nPlease provide: [...]\n\nFormat your response clearly with headers.")))

\* C9: the request summarize_video hands to the gateway holds the transcript
\* unchanged when it has at most 15000 characters, and else its first 15000
\* characters followed by the marker: never more than 15000 characters and
\* the marker
C9_TranscriptTruncatedBeforeDispatch ==
    Summarized =>
        /\ Len(requests) = 1
        /\ requests[1].messages[1].content
             = PyStr(SummaryPrompt(Bounded(FetchedTranscript), S("")))
        /\ Embedded(requests[1]) = Bounded(FetchedTranscript)
        /\ Len(Embedded(requests[1])) <= 15000 + Len(Str("... [transcript truncated]"))

\* a transcript of more than 15000 characters was summarized
C9_Witness ==
    /\ Summarized
    /\ Len(FetchedTranscript) = 15001
    /\ Len(Embedded(requests[1])) = 15000 + Len(TruncationMarker)

\* C10: the plagiarism_score of a result of check_plagiarism is an integer
\* from 0 to 100, whatever the model returned
C10_PlagiarismScoreInRange ==
    (PlagiarismChecked /\ IsResult /\ Str("plagiarism_score") \in DOMAIN result.value.v) =>
        /\ result.value.v[Str("plagiarism_score")].t = "int"
        /\ result.value.v[Str("plagiarism_score")].v \in 0..100

\* a model override is given: an identifier, not None and not the empty string
OverrideGiven ==
    /\ call.op \in FeatureFunctions
    /\ call.args.model # None
    /\ call.args.model # S("")

\* the model the call is to go to
RoutedModel ==
    IF OverrideGiven THEN call.args.model
    ELSE IF call.op = "analyze_image" THEN S("meta-llama/llama-4-maverick-17b-128e-instruct")
    ELSE S("openai/gpt-oss-120b")

\* C11: every request of analyze_image goes to the vision model and every
\* request of the other feature functions to the text model, unless a model
\* override is given, and then it goes to exactly the overriding model
C11_ModelRouting ==
    call.op \in FeatureFunctions \cup PageFunctions =>
        \A i \in 1..Len(requests) : requests[i].model = RoutedModel

\* analyze_image without an override sent its request to the vision model
C11_Witness ==
    /\ call.op = "analyze_image"
    /\ call.args.model = None
    /\ Len(requests) = 1
    /\ requests[1].model = IMAGE_MODEL

\* C12: when the transport fails with message m, _call_groq raises an error
\* whose message contains m, and the error field of the result of the
\* calling feature function, analyze_image included, contains m
C12_TransportErrorTextPreserved ==
    (call.op \notin {"none", "_extract_json"} /\ TransportFailed) =>
        IF call.op = "_call_groq"
        THEN result.kind = "raise" /\ Contains(result.value.v, call.reply.value.v)
        ELSE /\ IsResult
             /\ Str("error") \in DOMAIN result.value.v
             /\ result.value.v[Str("error")].t = "str"
             /\ Contains(result.value.v[Str("error")].v, call.reply.value.v)

\* analyze_image returned the text of the failure of the transport it called
C12_Witness ==
    /\ call.op = "analyze_image"
    /\ TransportFailed
    /\ result = Return(PyDict(Str("error") :> S("Error code: 429")))

\* C13: an invocation of a feature function calls the transport at most
\* once; when that call fails, the invocation ends with an error result and
\* no further transport call
C13_NoRetry ==
    call.op \in FeatureFunctions \cup PageFunctions =>
        /\ Len(requests) <= 1
        /\ TransportFailed =>
              /\ Len(requests) = 1
              /\ IsResult
              /\ Str("error") \in DOMAIN result.value.v

\* check_plagiarism ended with the error of the one call it made
C13_Witness ==
    /\ call.op = "check_plagiarism"
    /\ TransportFailed
    /\ Len(requests) = 1
    /\ result = Return(PyDict(Str("error") :> S("Groq API error: Error code: 429")))

\* the environment holds no API key
KeyAbsent == api_key = None \/ api_key = S("")

StartsWith(s, prefix) == Len(s) >= Len(prefix) /\ SubSeq(s, 1, Len(prefix)) = prefix

\* C14: when the API key is absent, building the gateway raises a
\* configuration error, get_groq_service leaves no instance cached, and every
\* call of a page (grammar, paraphrase, plagiarism, summarize, chat) ends
\* with an error outcome and no request to the transport
C14_MissingCredentialIsFatal ==
    KeyAbsent =>
        /\ GroqService(api_key).kind = "raise"
        /\ GroqService(api_key).value.t = "ValueError"
        /\ _groq_service = "None"
        /\ requests = <<>>
        /\ call.op \in PageFunctions => (IsResult /\ Str("error") \in DOMAIN result.value.v)
        /\ call.op = "chat_with_ai" =>
              (result.value.t = "str" /\ StartsWith(result.value.v, Str("Error: ")))

\* without a key, the chat page answered a send with the error of the
\* gateway it does not have
C14_Witness ==
    /\ api_key = None
    /\ call.op = "chat_with_ai"
    /\ requests = <<>>
    /\ result = Return(S("Error: Groq service not initialized. Please check your API key."))

\* the roles of a history alternate, the user first
Alternating(history) ==
    \A i \in 1..Len(history) :
        history[i].role = IF i % 2 = 1 THEN S("user") ELSE S("assistant")

\* a send is in progress: its answer is awaited
SendInProgress == call.op = "send"

\* whole turns when no send is in progress, and the user turn of the send
\* on top of them while one is
HistoryShape ==
    /\ Alternating(chat_history)
    /\ Len(chat_history) % 2 = IF SendInProgress THEN 1 ELSE 0

UserTurnAppended ==
    /\ ~SendInProgress
    /\ call'.op = "send"
    /\ call'.args.user_input # S("")
    /\ chat_history' = Append(chat_history,
                              [role |-> S("user"), content |-> call'.args.user_input])

AssistantTurnAppended ==
    /\ SendInProgress
    /\ call'.op = "chat_with_ai"
    /\ chat_history' = Append(chat_history,
                              [role |-> S("assistant"), content |-> result'.value])

Cleared == ~SendInProgress /\ call'.op = "clear_chat" /\ chat_history' = <<>>

\* the steps of the history: a processed send appends the user turn and then,
\* as the next step, the assistant turn; Clear Chat empties the history; a
\* send with empty input and every other action leave it as it is
HistoryStep ==
    /\ SendInProgress => AssistantTurnAppended
    /\ call'.op = "send" => UserTurnAppended
    /\ call'.op = "clear_chat" => Cleared
    /\ (call'.op \in {"send", "send_ignored"} /\ call'.args.user_input = S(""))
          => (call'.op = "send_ignored" /\ chat_history' = chat_history)
    /\ \/ chat_history' = chat_history
       \/ UserTurnAppended
       \/ AssistantTurnAppended
       \/ Cleared

\* C15: in a session of Send and Clear Chat actions, each processed send
\* appends the user turn and then the assistant turn, so that the history is
\* an even-length alternation of user and assistant whenever no send is in
\* progress; Clear Chat empties it, a send with empty input changes nothing
\* and no other action changes it
C15_HistoryDiscipline == []HistoryShape /\ [][HistoryStep]_vars

\* two sends were processed: the history holds their four turns
C15_Witness ==
    /\ call.op = "chat_with_ai"
    /\ Len(chat_history) = 4
    /\ chat_history[3] = [role |-> S("user"), content |-> S("Hi")]
    /\ chat_history[4].role = S("assistant")

\* where the fences of a text start
FenceStarts(text) == {i \in 1..Len(text) : LiteralAt(Fence, text, i)}

\* the text between the fence at i and the fence at j
Between(text, i, j) == SubSeq(text, i + Len(Fence), j - 1)

\* a text without the json tag it may start with
WithoutTag(s) == IF StartsWith(s, Str("json")) THEN SubSeq(s, 5, Len(s)) ELSE s

\* neither the text nor what stands between any two of its fences, with or
\* without a json tag after the opening one, is valid JSON
NoJsonAnywhere(text) ==
    /\ ~Parses(text)
    /\ \A i \in FenceStarts(text), j \in FenceStarts(text) :
          j >= i + Len(Fence) =>
              /\ ~Parses(Between(text, i, j))
              /\ ~Parses(WithoutTag(Between(text, i, j)))

\* C16: on a text with no JSON anywhere, neither as a whole nor between
\* fences, the extraction raises the parse error and returns no value
C16_NoJsonRaises ==
    (Extracted /\ NoJsonAnywhere(call.args.content.v)) =>
        (result.kind = "raise" /\ result.value.t = "JSONDecodeError")

\* the extraction raised on a fenced answer that holds no JSON
C16_Witness ==
    /\ Extracted
    /\ call.embed.fencing = "json"
    /\ call.embed.body = Str("I cannot help with that.")
    /\ NoJsonAnywhere(call.args.content.v)
    /\ result.kind = "raise"

\* the model a dispatch resolves: the override, or the default when none is given
ResolvedModel ==
    IF call.args.model = None \/ call.args.model = S("") THEN S("openai/gpt-oss-120b")
    ELSE call.args.model

\* C17: _call_groq attaches reasoning_effort, with the value "medium", exactly
\* when use_reasoning is true and the resolved model - the override, or the
\* default when none is given - contains "gpt-oss"; otherwise the request
\* has no reasoning_effort parameter
C17_MediumHintWhenReasoningAndFamily ==
    call.op = "_call_groq" =>
        /\ Len(requests) = 1
        /\ requests[1].model = ResolvedModel
        /\ IF call.args.use_reasoning /\ Contains(ResolvedModel.v, Str("gpt-oss"))
           THEN /\ "reasoning_effort" \in DOMAIN requests[1]
                /\ requests[1].reasoning_effort = S("medium")
           ELSE "reasoning_effort" \notin DOMAIN requests[1]

\* a dispatch without an override, use_reasoning on, went to the default
\* model with the hint "medium"
C17_Witness ==
    /\ call.op = "_call_groq"
    /\ call.args.model = None
    /\ call.args.use_reasoning
    /\ requests[1].model = DEFAULT_MODEL
    /\ requests[1].reasoning_effort = S("medium")

ParsedObject ==
    /\ TransportSucceeded
    /\ _extract_json(call.reply.value).kind = "return"
    /\ _extract_json(call.reply.value).value.t = "dict"

TheParsed == _extract_json(call.reply.value).value.v

\* the value of a key in the parsed object, or the default
Filled(key, default) == IF Str(key) \in DOMAIN TheParsed THEN TheParsed[Str(key)] ELSE default

\* C19: after a parse to a JSON object, check_grammar returns the input for
\* a missing corrected_text and [] for missing corrections, check_plagiarism
\* 0 for a missing plagiarism_score, [] for missing flagged_sentences and
\* "No issues detected in the text." for missing feedback; what the model
\* supplied passes unchanged, original_text is the input and no other key
\* appears
C19_DefaultsFilled ==
    /\ (GrammarChecked /\ ParsedObject) =>
          result = Return(PyDict(Str("original_text") :> call.args.text
                                 @@ Str("corrected_text") :> Filled("corrected_text", call.args.text)
                                 @@ Str("corrections") :> Filled("corrections", PyList(<<>>))))
    /\ (PlagiarismChecked /\ ParsedObject) =>
          result = Return(PyDict(Str("original_text") :> call.args.text
                                 @@ Str("plagiarism_score") :> Filled("plagiarism_score", PyInt(0))
                                 @@ Str("flagged_sentences") :> Filled("flagged_sentences", PyList(<<>>))
                                 @@ Str("feedback") :>
                                       Filled("feedback", S("No issues detected in the text."))))

\* check_plagiarism filled flagged_sentences for an object that holds a
\* score and a feedback, and passed these two on
C19_Witness ==
    /\ call.op = "check_plagiarism"
    /\ ParsedObject
    /\ DOMAIN TheParsed = {Str("plagiarism_score"), Str("feedback")}
    /\ result.value.v[Str("flagged_sentences")] = PyList(<<>>)
    /\ result.value.v[Str("plagiarism_score")] = PyInt(-5)
    /\ result.value.v[Str("feedback")] = S("Generic.")

\* summarize_video was called on a page that holds a gateway
VideoSummarized == call.op = "summarize_video" /\ groq_service = "GroqService"

\* the transcript source gave an error
TranscriptFailed == call.args.fetched.kind = "raise"

\* C20: in summarize_video, when the transcript source returns an error,
\* that error result is returned as it is and no request is dispatched; a
\* request is dispatched only after a transcript was obtained
C20_TranscriptErrorBeforeDispatch ==
    VideoSummarized =>
        /\ TranscriptFailed =>
              /\ requests = <<>>
              /\ result = Return(get_youtube_transcript(call.args.fetched))
              /\ DOMAIN result.value.v = {Str("error")}
        /\ requests # <<>> => ~TranscriptFailed

\* summarize_video returned the error of a video without captions and
\* dispatched nothing
C20_Witness ==
    /\ VideoSummarized
    /\ TranscriptFailed
    /\ call.args.fetched.value.t = "TranscriptsDisabled"
    /\ requests = <<>>
    /\ result = Return(PyDict(Str("error") :>
          S("No transcript available for this video. The video might not have captions enabled.")))

\* a send of the chat page was answered through the gateway
ChatDispatched == call.op = "chat_with_ai" /\ requests # <<>>

\* the turns the history held before the send that was just answered
PriorTurns == SubSeq(chat_history, 1, Len(chat_history) - 2)

\* C21: the messages of the request of a chat turn are the system prompt,
\* then the turns of the history that preceded the send, in their order,
\* then the new user message, once
C21_NewMessageDispatchedOnce ==
    ChatDispatched =>
        requests[1].messages =
            <<[role |-> S("system"), content |-> PyStr(ChatSystemPrompt)]>>
            \o PriorTurns
            \o <<[role |-> S("user"), content |-> call.args.user_input]>>

\* a send of the chat page was answered without a completion: the service is
\* not initialised or the transport failed
ChatTurnFailed ==
    /\ call.op = "chat_with_ai"
    /\ (requests = <<>> \/ ~Succeeded(call.reply))

\* the text chat_with_ai gives for a failed turn
IsErrorText(content) == content.t = "str" /\ StartsWith(content.v, Str("Error: "))

\* the assistant entries of a list of turns
AssistantEntries(turns) == {i \in DOMAIN turns : turns[i].role = S("assistant")}

\* no request replays an error text as an earlier assistant turn
ErrorsNeverReplayed ==
    ChatDispatched =>
        \A i \in AssistantEntries(requests[1].messages) :
            ~IsErrorText(requests[1].messages[i].content)

\* C22: every assistant entry of the history is the text of a successful
\* completion: a failed turn stores no assistant entry with its error text,
\* and no request replays an error text as an earlier assistant turn
C22_ErrorsNeverStored ==
    /\ ChatTurnFailed =>
          \A i \in AssistantEntries(chat_history) : chat_history[i].content # result.value
    /\ \A i \in AssistantEntries(chat_history) : ~IsErrorText(chat_history[i].content)
    /\ ErrorsNeverReplayed

\* a click on Send is ignored only for its empty input
IgnoredOnlyWhenEmpty == call'.op = "send_ignored" => call'.args.user_input = S("")

\* C23: processing_done is true whenever no send is being handled; a send
\* that lowered it raises it again, whether the call of the model succeeded
\* or failed, so that no later Send with non-empty input is ignored
C23_ProcessingDoneRestored ==
    /\ [](~SendInProgress => processing_done)
    /\ [][IgnoredOnlyWhenEmpty]_vars
    /\ (~processing_done) ~> processing_done

\* a send was processed after one whose call of the model failed
C23_Witness ==
    /\ call.op = "chat_with_ai"
    /\ processing_done
    /\ Len(chat_history) = 4
    /\ IsErrorText(chat_history[2].content)
    /\ chat_history[3] = [role |-> S("user"), content |-> S("Hi")]

=============================================================================
